---- MODULE Spec2Model ----
(***************************************************************************)
(* A model of AShareData's SQLDBReader (src/AShareData/SQLDBReader.py):    *)
(* schema validation, the long -> wide pivot, calendar conformance, the    *)
(* point-in-time build of financial-statement factors and the industry     *)
(* level translation.  Every handler is one action: the code is            *)
(* synchronous, and queries counts the reads it has executed when it ends. *)
(*                                                                         *)
(* Dates, security ids and report periods are small naturals (their order  *)
(* is the order pandas sorts them in); a missing cell is NaN.              *)
(***************************************************************************)
EXTENDS Integers, Sequences, FiniteSets, TLC

VARIABLES
    meta,       \* the store's schema: table name -> set of column names
    data,       \* the store's rows: table name -> rows, in the order the store returns them
    calendar,   \* self.calendar, the cached trading calendar (ascending dates)
    stocks,     \* self.stocks, the cached list of all known securities
    call,       \* the arguments of the call in progress (or of the last call)
    pc,         \* the position of the call within its handler
    queries,    \* read_sql_table calls executed by the call
    primary_keys, \* what _check_args_and_get_primary_keys returned to the call
    df,         \* the panel handed to _conform_df
    out         \* what the call returned (or raised)

vars == <<meta, data, calendar, stocks, call, pc, queries, primary_keys, df, out>>

----------------------------------------------------------------------------
(* Bounds of the model *)

MaxDate == 4
MaxID == 2
MaxRows == 2

(* Program values *)

None == 0
NaN == -1

Dates == 1..MaxDate
IDs == 1..MaxID
Values == {10, 30}
Cells == Values \cup {NaN}

----------------------------------------------------------------------------
(* Sequence helpers *)

Range(s) == {s[i] : i \in 1..Len(s)}

Min(S) == CHOOSE x \in S : \A y \in S : x <= y

Max(S) == CHOOSE x \in S : \A y \in S : y <= x

RECURSIVE Sorted(_)
Sorted(S) == IF S = {} THEN <<>> ELSE <<Min(S)>> \o Sorted(S \ {Min(S)})

Filter(s, S) == SelectSeq(s, LAMBDA x : x \in S)

\* s[:-1]
DropLast(s) == IF Len(s) = 0 THEN <<>> ELSE SubSeq(s, 1, Len(s) - 1)

----------------------------------------------------------------------------
(* Panels: a DataFrame with a date index and security columns *)

Panel(index, columns, val) == [index |-> index, columns |-> columns, val |-> val]

EmptyPanel == Panel(<<>>, <<>>, [k \in {} |-> NaN])

Keys(p) == Range(p.index) \X Range(p.columns)

\* the cell of p at (d, c); a label p does not have reads as missing
Cell(p, d, c) == IF <<d, c>> \in DOMAIN p.val THEN p.val[<<d, c>>] ELSE NaN

\* df.unstack().droplevel(None, axis=1) of long rows keyed by (DateTime, ID):
\* both axes come out sorted; a (date, id) pair without a row is missing
Unstack(rows) ==
    LET index == Sorted({rows[i].DateTime : i \in 1..Len(rows)})
        columns == Sorted({rows[i].ID : i \in 1..Len(rows)})
        at(d, c) == {i \in 1..Len(rows) : rows[i].DateTime = d /\ rows[i].ID = c}
    IN  Panel(index, columns,
              [k \in Range(index) \X Range(columns) |->
                  IF at(k[1], k[2]) = {} THEN NaN
                  ELSE rows[CHOOSE i \in at(k[1], k[2]) : TRUE].value])

\* df.reindex(dates): the rows of p at the given labels, in the given order
ReindexRows(p, dates) ==
    Panel(dates, p.columns,
          [k \in Range(dates) \X Range(p.columns) |-> Cell(p, k[1], k[2])])

\* df.reindex(ids, axis=1)
ReindexColumns(p, ids) ==
    Panel(p.index, ids,
          [k \in Range(p.index) \X Range(ids) |-> Cell(p, k[1], k[2])])

\* the last non-missing value of column c in rows 1..i of p, NaN when none
RECURSIVE LastValid(_, _, _)
LastValid(p, i, c) ==
    IF i = 0 THEN NaN
    ELSE IF Cell(p, p.index[i], c) # NaN THEN Cell(p, p.index[i], c)
    ELSE LastValid(p, i - 1, c)

\* the fill left out
FFill_NoFill(p) == p

\* df.ffill(): down every column, a missing cell takes the last valid value above
FFill(p) ==
    Panel(p.index, p.columns,
          [k \in Keys(p) |->
              LastValid(p, CHOOSE i \in 1..Len(p.index) : p.index[i] = k[1], k[2])])

\* df.loc[start_date:, :] on an ascending date index; None slices from the top
LocFrom(p, start_date) ==
    LET index == SelectSeq(p.index, LAMBDA d : start_date = None \/ d >= start_date)
    IN  Panel(index, p.columns,
              [k \in Range(index) \X Range(p.columns) |-> Cell(p, k[1], k[2])])

----------------------------------------------------------------------------
(* utils.select_dates and the calendar contract (section 4.1 of the spec) *)

RangeError(start_date, end_date) ==
    start_date # None /\ end_date # None /\ start_date > end_date

SelectDates(date_list, start_date, end_date) ==
    SelectSeq(date_list, LAMBDA d : /\ (start_date = None \/ d >= start_date)
                                    /\ (end_date = None \/ d <= end_date))

----------------------------------------------------------------------------
(* SQLDBReader._conform_df *)

Ok(p) == [status |-> "ok", df |-> p]

Raised(e) == [status |-> e, df |-> EmptyPanel]

NoStockList == [given |-> FALSE, ids |-> <<>>]

StockList(ids) == [given |-> TRUE, ids |-> ids]

\* `not stock_list`: None and the empty sequence are both falsy
NotStockList(stock_list) == ~stock_list.given \/ stock_list.ids = <<>>

\* max() for min()
FirstTimestamp_Max(p) == Max(Range(p.index))

FirstTimestamp(p) == Min(Range(p.index))

\* the whole date_list
AlignDates_KeepLast(date_list) == date_list

\* the dates the rows are aligned on: date_list[:-1]
AlignDates(date_list) == DropLast(date_list)

\* the plain branch forward-filled as well
ConformRows_AlwaysFill(p, ffill, start_date, end_date) ==
    IF ffill
    THEN LocFrom(FFill(ReindexRows(p,
             AlignDates(SelectDates(calendar, FirstTimestamp(p), end_date)))),
             start_date)
    ELSE FFill(ReindexRows(p, AlignDates(SelectDates(calendar, start_date, end_date))))

ConformRows(p, ffill, start_date, end_date) ==
    IF ffill
    THEN LocFrom(FFill(ReindexRows(p,
             AlignDates(SelectDates(calendar, FirstTimestamp(p), end_date)))),
             start_date)
    ELSE ReindexRows(p, AlignDates(SelectDates(calendar, start_date, end_date)))

ConformColumns(p, stock_list) ==
    ReindexColumns(p, IF NotStockList(stock_list) THEN stocks ELSE stock_list.ids)

ConformDf(p, ffill, start_date, end_date, stock_list) ==
    IF RangeError(IF ffill THEN FirstTimestamp(p) ELSE start_date, end_date)
    THEN Raised("RangeError")
    ELSE Ok(ConformColumns(ConformRows(p, ffill, start_date, end_date), stock_list))

----------------------------------------------------------------------------
(* The store: its schema and its rows *)

KeyColumns == <<"DateTime", "ID", "ReportPeriod">>

\* a daily factor table, a financial-statement table, a provider's industry table
Schema ==
    [daily |-> {"DateTime", "ID", "f"},
     balance |-> {"DateTime", "ID", "ReportPeriod", "f"},
     P_industry |-> {"DateTime", "ID", "industry"}]

EmptyStore == [t \in DOMAIN Schema |-> <<>>]

\* str.lower() on the table names the callers pass
Lower(name) ==
    CASE name = "Daily" -> "daily"
      [] name = "BALANCE" -> "balance"
      [] OTHER -> name

----------------------------------------------------------------------------
(* The states the reader can be constructed in *)

\* ascending sequences of distinct dates: what get_calendar returns
Calendars == {Sorted(S) : S \in SUBSET Dates}

\* get_stocks: nothing listed yet, or every security
StockLists == {<<>>, Sorted(IDs)}

LongRow(d, c, v) == [DateTime |-> d, ID |-> c, value |-> v]

LongRows == {LongRow(d, c, v) : d \in Dates, c \in IDs, v \in Cells}

KeyBefore(r, s) == r.DateTime < s.DateTime \/ (r.DateTime = s.DateTime /\ r.ID < s.ID)

\* tables of at most MaxRows rows whose primary key (DateTime, ID) is unique
LongTables ==
    UNION {{t \in [1..n -> LongRows] : \A i \in 1..n - 1 : KeyBefore(t[i], t[i + 1])}
           : n \in 0..MaxRows}

Idle == [op |-> "none", ffill |-> FALSE, start_date |-> None, end_date |-> None,
         stock_list |-> NoStockList]

ConformCall(ffill, start_date, end_date, stock_list) ==
    [op |-> "_conform_df", ffill |-> ffill, start_date |-> start_date,
     end_date |-> end_date, stock_list |-> stock_list]

DateArgs == Dates \cup {None}

StockListArgs == {NoStockList, StockList(<<>>), StockList(<<MaxID>>)}

----------------------------------------------------------------------------
(* Conformance: _conform_df applied to a pivoted panel, and applied again  *)
(* to what it returned                                                     *)

InitConform ==
    /\ meta = Schema
    /\ data = EmptyStore
    /\ calendar \in Calendars
    /\ stocks \in StockLists
    /\ \E t \in LongTables : df = Unstack(t)
    /\ call = Idle
    /\ pc = "idle"
    /\ queries = 0
    /\ primary_keys = <<>>
    /\ out = Raised("none")

\* first_timestamp of a panel without rows is NaT, which select_dates (not in
\* this source) is not defined on: forward-fill is called on panels with rows
Conform(ffill, start_date, end_date, stock_list) ==
    /\ pc = "idle"
    /\ ffill => df.index # <<>>
    /\ call' = ConformCall(ffill, start_date, end_date, stock_list)
    /\ out' = ConformDf(df, ffill, start_date, end_date, stock_list)
    /\ pc' = "conformed"
    /\ UNCHANGED <<meta, data, calendar, stocks, queries, primary_keys, df>>

\* the caller hands the returned panel back with the same arguments
ConformAgain ==
    /\ pc = "conformed"
    /\ out.status = "ok"
    /\ call.ffill => out.df.index # <<>>
    /\ df' = out.df
    /\ out' = ConformDf(out.df, call.ffill, call.start_date, call.end_date, call.stock_list)
    /\ pc' = "conformed again"
    /\ UNCHANGED <<meta, data, calendar, stocks, call, queries, primary_keys>>

NextConform ==
    \/ \E ffill \in BOOLEAN, start_date \in DateArgs, end_date \in DateArgs,
          stock_list \in StockListArgs :
            Conform(ffill, start_date, end_date, stock_list)
    \/ ConformAgain

SpecConform == InitConform /\ [][NextConform]_vars

----------------------------------------------------------------------------
(* Claims about _conform_df, checked under SpecConform *)

Last(s) == s[Len(s)]

Conformed(ffill) == pc = "conformed" /\ call.ffill = ffill /\ out.status = "ok"

\* the window select_dates resolves for the call
ResolvedWindow ==
    SelectDates(calendar,
                IF call.ffill THEN FirstTimestamp(df) ELSE call.start_date,
                call.end_date)

NotBeforeStart(d) == call.start_date = None \/ d >= call.start_date

\* the most recent non-missing value of column c of the input panel among its
\* rows dated in S at or before d
MostRecent(S, c, d) ==
    LET seen == {x \in S \cap Range(df.index) : x <= d /\ Cell(df, x, c) # NaN}
    IN  IF seen = {} THEN NaN ELSE Cell(df, Max(seen), c)

AllMissing(p, d) == \A c \in Range(p.columns) : Cell(p, d, c) = NaN

\* C9: in both modes the returned panel has no row for the last date of the
\* resolved window, and has a row for every other resolved date that is not
\* before start_date.
C9_LastResolvedDateIsSentinel ==
    (pc = "conformed" /\ out.status = "ok") =>
        LET W == ResolvedWindow
        IN  /\ W # <<>> => Last(W) \notin Range(out.df.index)
            /\ \A i \in 1..Len(W) - 1 :
                   NotBeforeStart(W[i]) => W[i] \in Range(out.df.index)

C9_Witness ==
    /\ Conformed(TRUE)
    /\ Len(ResolvedWindow) >= 3
    /\ call.end_date = Last(ResolvedWindow)
    /\ call.start_date = ResolvedWindow[2]
    /\ Len(out.df.index) = Len(ResolvedWindow) - 2

\* C3 as stated: with forward_fill the result has exactly the trading dates of
\* start_date..end_date as rows, each cell the most recent non-missing panel
\* value at or before its date.
C3_AsStated ==
    Conformed(TRUE) =>
        /\ out.df.index = SelectDates(calendar, call.start_date, call.end_date)
        /\ \A d \in Range(out.df.index), c \in Range(out.df.columns) :
               Cell(out.df, d, c) = MostRecent(Range(df.index), c, d)

\* the example of the spec: calendar Jan1..Jan4, (Jan1, A) = 10, (Jan3, A) = 30,
\* start = Jan2, end = Jan4
C3_Example ==
    /\ calendar = <<1, 2, 3, 4>>
    /\ df = Unstack(<<LongRow(1, 1, 10), LongRow(3, 1, 30)>>)
    /\ stocks = Sorted(IDs)
    /\ call = ConformCall(TRUE, 2, 4, NoStockList)

\* C3 (amended): with forward_fill the rows are the trading dates from the
\* panel's first date to end_date, without the last of them and without those
\* before start_date, in calendar order; each cell is the most recent
\* non-missing value among the panel's rows on the aligned dates at or before
\* its date, and is missing when there is none. On the example the rows are
\* [Jan2, Jan3] with values [10, 30].
C3_ForwardFillOnAlignedDates ==
    Conformed(TRUE) =>
        LET aligned == DropLast(ResolvedWindow)
        IN  /\ out.df.index = SelectSeq(aligned, NotBeforeStart)
            /\ \A d \in Range(out.df.index), c \in Range(out.df.columns) :
                   Cell(out.df, d, c) = MostRecent(Range(aligned), c, d)
            /\ C3_Example =>
                   /\ out.df.index = <<2, 3>>
                   /\ Cell(out.df, 2, 1) = 10
                   /\ Cell(out.df, 3, 1) = 30

C3_Witness ==
    /\ Conformed(TRUE)
    /\ C3_Example

\* C5 as stated: an empty stock_list gives a panel without columns, and no
\* error (the date range being valid).
C5_EmptyUniverseNoColumns ==
    (/\ pc = "conformed"
     /\ call.stock_list = StockList(<<>>)
     /\ ~RangeError(IF call.ffill THEN FirstTimestamp(df) ELSE call.start_date,
                    call.end_date)) =>
        /\ out.status = "ok"
        /\ out.df.columns = <<>>

FullyFilled(p) == p.index # <<>> /\ \A k \in Keys(p) : p.val[k] # NaN

\* C6 as stated: a fully filled panel that already has the window's dates as
\* rows and the universe as columns comes back unchanged.
C6_AsStated ==
    (/\ pc = "conformed"
     /\ call.ffill
     /\ FullyFilled(df)
     /\ df.index = SelectDates(calendar, call.start_date, call.end_date)
     /\ df.columns = (IF NotStockList(call.stock_list) THEN stocks
                      ELSE call.stock_list.ids)) =>
        out = Ok(df)

\* C6 (amended): conforming with forward_fill what a forward-fill conform
\* returned, with the same calendar, dates and universe, returns it unchanged,
\* provided it has a row.
C6_ConformAgainIsIdentity ==
    (pc = "conformed again" /\ call.ffill) => out = Ok(df)

C6_Witness ==
    /\ pc = "conformed again"
    /\ call.ffill
    /\ Len(df.index) >= 2
    /\ \E c \in Range(df.columns) :
           /\ Cell(df, df.index[1], c) # NaN
           /\ Cell(df, df.index[2], c) = Cell(df, df.index[1], c)
    /\ \E c \in Range(df.columns) : Cell(df, df.index[1], c) = NaN

\* C7 as stated: without forward_fill every date that is a row of the input
\* and in the calendar window start_date..end_date has an output row with the
\* input's values, and an output date that is no input row is all missing.
C7_AsStated ==
    Conformed(FALSE) =>
        /\ \A d \in Range(df.index) \cap Range(ResolvedWindow) :
               /\ d \in Range(out.df.index)
               /\ \A c \in Range(out.df.columns) : Cell(out.df, d, c) = Cell(df, d, c)
        /\ \A d \in Range(out.df.index) \ Range(df.index) : AllMissing(out.df, d)

\* C7 (amended): without forward_fill every date that is a row of the input
\* and in the calendar window start_date..end_date, other than the window's
\* last date, has an output row with the input's values for every retained
\* security, and an output date that is no input row is all missing.
C7_ExactOnAlignedDates ==
    Conformed(FALSE) =>
        /\ \A d \in Range(df.index) \cap Range(DropLast(ResolvedWindow)) :
               /\ d \in Range(out.df.index)
               /\ \A c \in Range(out.df.columns) : Cell(out.df, d, c) = Cell(df, d, c)
        /\ \A d \in Range(out.df.index) \ Range(df.index) : AllMissing(out.df, d)

C7_Witness ==
    /\ Conformed(FALSE)
    /\ Len(out.df.index) >= 3
    /\ out.df.index[1] \in Range(df.index)
    /\ out.df.index[2] \notin Range(df.index)
    /\ out.df.index[3] \in Range(df.index)
    /\ \E c \in Range(out.df.columns) :
           /\ Cell(out.df, out.df.index[1], c) \in Values
           /\ Cell(out.df, out.df.index[3], c) \in Values

----------------------------------------------------------------------------
(* SQLDBReader._check_args_and_get_primary_keys *)

NoTable == "AssertionError: no such table"

NoColumn == "AssertionError: no such column"

SchemaErrors == {NoTable, NoColumn}

\* the column assertion left out
CheckArgs_NoColumnAssert(table_name, factor_name) ==
    IF table_name \notin DOMAIN meta THEN NoTable ELSE "ok"

\* the status the two assertions leave: "ok" when both pass
CheckArgs(table_name, factor_name) ==
    IF table_name \notin DOMAIN meta THEN NoTable
    ELSE IF factor_name \notin meta[table_name] THEN NoColumn
    ELSE "ok"

\* [it for it in ['DateTime', 'ID', report period] if it in columns]
PrimaryKeys(table_name) == Filter(KeyColumns, meta[table_name])

CheckCall(table_name, factor_name) ==
    [op |-> "_check_args_and_get_primary_keys",
     table_name |-> table_name, factor_name |-> factor_name]

CheckArgsAndGetPrimaryKeys(table_name, factor_name) ==
    /\ pc = "idle"
    /\ call' = CheckCall(table_name, factor_name)
    /\ LET status == CheckArgs(table_name, factor_name)
       IN  /\ out' = [status |-> status, df |-> EmptyPanel]
           /\ primary_keys' = IF status = "ok" THEN PrimaryKeys(table_name) ELSE <<>>
    /\ pc' = "checked"
    /\ UNCHANGED <<meta, data, calendar, stocks, queries, df>>

(* Schema validation over every small schema *)

TableNames == {"daily", "balance"}

ColumnNames == Range(KeyColumns) \cup {"f"}

\* any set of the tables, each with any set of the columns
Schemas == UNION {[T -> SUBSET ColumnNames] : T \in SUBSET TableNames}

InitKeys ==
    /\ meta \in Schemas
    /\ data = EmptyStore
    /\ calendar = <<>>
    /\ stocks = <<>>
    /\ df = EmptyPanel
    /\ call = Idle
    /\ pc = "idle"
    /\ queries = 0
    /\ primary_keys = <<>>
    /\ out = Raised("none")

NextKeys ==
    \E table_name \in TableNames \cup {"unknown_table"},
       factor_name \in ColumnNames \cup {"x"} :
        CheckArgsAndGetPrimaryKeys(table_name, factor_name)

SpecKeys == InitKeys /\ [][NextKeys]_vars

\* the place of a key column in the canonical order
KeyPlace(k) == CHOOSE i \in 1..Len(KeyColumns) : KeyColumns[i] = k

\* C2: the check fails with a schema error iff the table is not in the store
\* or the column is not in the table; otherwise it returns exactly the
\* canonical key columns the table has, in the canonical order.
C2_ResolveKeys ==
    pc = "checked" =>
        LET absent == \/ call.table_name \notin DOMAIN meta
                      \/ call.factor_name \notin meta[call.table_name]
        IN  /\ out.status \in SchemaErrors <=> absent
            /\ ~absent =>
                   /\ out.status = "ok"
                   /\ Range(primary_keys) = Range(KeyColumns) \cap meta[call.table_name]
                   /\ \A i, j \in 1..Len(primary_keys) :
                          i < j => KeyPlace(primary_keys[i]) < KeyPlace(primary_keys[j])

C2_Witness ==
    /\ pc = "checked"
    /\ call.table_name = "balance"
    /\ call.factor_name = "f"
    /\ call.table_name \in DOMAIN meta
    /\ meta[call.table_name] = {"ReportPeriod", "DateTime", "f"}
    /\ primary_keys = <<"DateTime", "ReportPeriod">>

----------------------------------------------------------------------------
(* SQLDBReader.get_financial_factor: the point-in-time build *)

MaxPeriod == 2
MaxFinRows == 3

\* report periods are half-year ends: odd ones end in June, even ones in December
Periods == 1..MaxPeriod

PeriodMonth(P) == IF P % 2 = 0 THEN 12 ELSE 6

FinRow(d, c, P, v) == [DateTime |-> d, ID |-> c, period |-> P, value |-> v]

FinRows == {FinRow(d, c, P, v) : d \in Dates, c \in IDs, P \in Periods, v \in Cells}

SameKey(r, s) == r.DateTime = s.DateTime /\ r.ID = s.ID /\ r.period = s.period

\* data.loc[lambda x: x[report period].dt.month == 12, :]
YearlyOnly(rows, yearly) ==
    IF yearly THEN SelectSeq(rows, LAMBDA r : PeriodMonth(r.period) = 12) ELSE rows

\* all_secs: the ids of the rows, cut to stock_list when that is truthy
AllSecs(rows, stock_list) ==
    LET ids == {rows[i].ID : i \in 1..Len(rows)}
    IN  IF NotStockList(stock_list) THEN ids ELSE ids \cap Range(stock_list.ids)

\* data.loc[data.ID == sec_id, :]
IdData(rows, sec_id) == SelectSeq(rows, LAMBDA r : r.ID = sec_id)

\* sorted(list(set(id_data.DateTime)))
AsOfDates(id_data) == Sorted({id_data[i].DateTime : i \in 1..Len(id_data)})

\* the cutoff left out
DateIdData_NoCutoff(id_data, date) == id_data

\* id_data.loc[data.DateTime <= date, :]
DateIdData(id_data, date) == SelectSeq(id_data, LAMBDA r : r.DateTime <= date)

\* GroupBy.last() of the factor column: the last non-null value in row order
RECURSIVE LastNonNull(_)
LastNonNull(rows) ==
    IF rows = <<>> THEN NaN
    ELSE IF rows[Len(rows)].value # NaN THEN rows[Len(rows)].value
    ELSE LastNonNull(DropLast(rows))

\* groupby(report period).last(): one value per report period, periods ascending
EachDateData(date_id_data) ==
    LET periods == Sorted({date_id_data[i].period : i \in 1..Len(date_id_data)})
    IN  [i \in 1..Len(periods) |->
            LastNonNull(SelectSeq(date_id_data, LAMBDA r : r.period = periods[i]))]

RECURSIVE SumSkipNa(_)
SumSkipNa(xs) ==
    IF xs = <<>> THEN 0
    ELSE (IF xs[1] = NaN THEN 0 ELSE xs[1]) + SumSkipNa(Tail(xs))

\* the aggregators callers pass: the latest period's value, the sum over periods
AggFuncs == {"latest", "sum"}

Apply(agg_func, xs) == IF agg_func = "latest" THEN xs[Len(xs)] ELSE SumSkipNa(xs)

\* the value stored for (date, sec_id)
OutputData(rows, sec_id, date, agg_func) ==
    Apply(agg_func, EachDateData(DateIdData(IdData(rows, sec_id), date)))

\* storage: one (date, sec_id) -> value entry per security and as-of date
Storage(rows, agg_func, stock_list) ==
    {LongRow(d, c, OutputData(rows, c, d, agg_func)) :
        <<d, c>> \in {k \in Dates \X AllSecs(rows, stock_list) :
                         k[1] \in Range(AsOfDates(IdData(rows, k[2])))}}

RECURSIVE SeqOf(_)
SeqOf(S) == IF S = {} THEN <<>>
            ELSE LET x == CHOOSE y \in S : TRUE IN <<x>> \o SeqOf(S \ {x})

FinCall(table_name, factor_name, agg_func, start_date, end_date, stock_list, yearly) ==
    [op |-> "get_financial_factor", table_name |-> table_name,
     factor_name |-> factor_name, agg_func |-> agg_func, start_date |-> start_date,
     end_date |-> end_date, stock_list |-> stock_list, yearly |-> yearly]

\* the rows read_sql_table returns for the (lower-cased) table
ReadSqlTable(table_name) == data[table_name]

\* the read moved before the check
Reads_BeforeCheck(status) == 1

\* the read_sql_table calls a handler has executed when it ends: the check
\* comes first, and a failed assertion leaves the handler before the read
Reads(status) == IF status = "ok" THEN 1 ELSE 0

GetFinancialFactor(table_name, factor_name, agg_func, start_date, end_date, stock_list, yearly) ==
    /\ pc = "idle"
    /\ call' = FinCall(table_name, factor_name, agg_func, start_date, end_date,
                       stock_list, yearly)
    /\ pc' = "returned"
    /\ LET table == Lower(table_name)
           status == CheckArgs(table, factor_name)
       IN  IF status # "ok"
           THEN /\ out' = Raised(status)
                /\ queries' = queries + Reads(status)
                /\ UNCHANGED <<primary_keys, df>>
           ELSE /\ primary_keys' = PrimaryKeys(table)
                /\ queries' = queries + Reads(status)
                /\ IF primary_keys' # KeyColumns
                   THEN out' = Raised("KeyError") /\ UNCHANGED df
                   ELSE LET rows == YearlyOnly(ReadSqlTable(table), yearly)
                            storage == Storage(rows, agg_func, stock_list)
                        IN  IF storage = {}
                            THEN out' = Raised("ValueError") /\ UNCHANGED df
                            ELSE /\ df' = Unstack(SeqOf(storage))
                                 /\ out' = ConformDf(df', FALSE, start_date, end_date,
                                                     stock_list)
    /\ UNCHANGED <<meta, data, calendar, stocks>>

(* The store gains rows; the reader builds the panel from what it holds *)

InsertRow(r) ==
    /\ pc = "idle"
    /\ Len(data.balance) < MaxFinRows
    /\ \A i \in 1..Len(data.balance) : ~SameKey(data.balance[i], r)
    /\ data' = [data EXCEPT !.balance = Append(@, r)]
    /\ UNCHANGED <<meta, calendar, stocks, call, pc, queries, primary_keys, df, out>>

InitPIT ==
    /\ meta = Schema
    /\ data = EmptyStore
    /\ calendar = Sorted(Dates)
    /\ stocks = Sorted(IDs)
    /\ df = EmptyPanel
    /\ call = Idle
    /\ pc = "idle"
    /\ queries = 0
    /\ primary_keys = <<>>
    /\ out = Raised("none")

NextPIT ==
    \/ \E r \in FinRows : InsertRow(r)
    \/ \E agg_func \in AggFuncs, stock_list \in {NoStockList, StockList(<<MaxID>>)},
          yearly \in BOOLEAN :
           GetFinancialFactor("balance", "f", agg_func, None, None, stock_list, yearly)

SpecPIT == InitPIT /\ [][NextPIT]_vars

----------------------------------------------------------------------------
(* Claims about the point-in-time build, checked under SpecPIT *)

Built == pc = "returned" /\ call.op = "get_financial_factor" /\ out.status = "ok"

\* the rows the build works on: the table's rows after the yearly filter
BuildRows(rows, yearly) == YearlyOnly(rows, yearly)

\* C1: appending a row observed after d changes neither the values handed to
\* the aggregator nor the value reconstructed at d, for any security, any
\* as-of date d emitted for it, with or without the yearly filter.
C1_NoLookAhead ==
    [][(Len(data'.balance) = Len(data.balance) + 1) =>
          LET r == data'.balance[Len(data'.balance)]
          IN  \A yearly \in BOOLEAN, c \in IDs :
                \A d \in Range(AsOfDates(IdData(BuildRows(data.balance, yearly), c))) :
                    r.DateTime > d =>
                        /\ EachDateData(DateIdData(IdData(BuildRows(data'.balance, yearly), c), d))
                           = EachDateData(DateIdData(IdData(BuildRows(data.balance, yearly), c), d))
                        /\ \A agg_func \in AggFuncs :
                               OutputData(BuildRows(data'.balance, yearly), c, d, agg_func)
                               = OutputData(BuildRows(data.balance, yearly), c, d, agg_func)
      ]_vars

\* a restatement was appended after the first report, and the built panel
\* shows the first value at the first date and the restated one at the second
C1_Witness ==
    /\ Built
    /\ call.agg_func = "latest"
    /\ Len(data.balance) = 2
    /\ LET r == data.balance[1]
           s == data.balance[2]
       IN  /\ r.ID = s.ID /\ r.period = s.period
           /\ r.DateTime < s.DateTime
           /\ r.value \in Values /\ s.value \in Values /\ r.value # s.value
           /\ Cell(df, r.DateTime, r.ID) = r.value
           /\ Cell(df, s.DateTime, s.ID) = s.value

\* the value of the row of security c for period P with the greatest
\* observation date at or before d
LatestRestatement(rows, c, d, P) ==
    LET known == {i \in 1..Len(rows) :
                     rows[i].ID = c /\ rows[i].period = P /\ rows[i].DateTime <= d}
        latest == CHOOSE i \in known : \A j \in known : rows[j].DateTime <= rows[i].DateTime
    IN  rows[latest].value

\* C4: for every security, as-of date d and report period P known by d, the
\* value handed to the aggregator for P is that of the row for P with the
\* greatest observation date at or before d, in whatever order the store
\* returns the rows (stated for tables in which every row carries a value).
C4_LatestRestatementPerPeriod ==
    (Built /\ \A i \in 1..Len(data.balance) : data.balance[i].value \in Values) =>
        LET rows == BuildRows(data.balance, call.yearly)
        IN  \A c \in AllSecs(rows, call.stock_list) :
              \A d \in Range(AsOfDates(IdData(rows, c))) :
                LET known == DateIdData(IdData(rows, c), d)
                    periods == Sorted({known[i].period : i \in 1..Len(known)})
                IN  \A i \in 1..Len(periods) :
                        EachDateData(known)[i] = LatestRestatement(rows, c, d, periods[i])

----------------------------------------------------------------------------
(* SQLDBReader.get_factor *)

FactorCall(table_name, factor_name, ffill, start_date, end_date, stock_list) ==
    [op |-> "get_factor", table_name |-> table_name, factor_name |-> factor_name,
     ffill |-> ffill, start_date |-> start_date, end_date |-> end_date,
     stock_list |-> stock_list]

\* The model covers tables keyed by (DateTime, ID), whose index is a MultiIndex
\* that unstack pivots on ID; forward-fill is asked of tables that hold rows.
GetFactor(table_name, factor_name, ffill, start_date, end_date, stock_list) ==
    /\ pc = "idle"
    /\ call' = FactorCall(table_name, factor_name, ffill, start_date, end_date,
                          stock_list)
    /\ pc' = "returned"
    /\ LET table == Lower(table_name)
           status == CheckArgs(table, factor_name)
       IN  /\ queries' = queries + Reads(status)
           /\ IF status # "ok"
              THEN /\ out' = Raised(status)
                   /\ UNCHANGED <<primary_keys, df>>
              ELSE /\ primary_keys' = PrimaryKeys(table)
                   /\ primary_keys' = <<"DateTime", "ID">>
                   /\ ffill => ReadSqlTable(table) # <<>>
                   /\ df' = Unstack(ReadSqlTable(table))
                   /\ out' = ConformDf(df', ffill, start_date, end_date, stock_list)
    /\ UNCHANGED <<meta, data, calendar, stocks>>

----------------------------------------------------------------------------
(* SQLDBReader.get_industry *)

\* AShareData.constants.INDUSTRY_LEVEL: the deepest level each provider defines
INDUSTRY_LEVEL == [P |-> 3]

\* the provider's classification table
IndustryTable(provider) == "P_industry"

\* industry.json: the name at the given level of a stored (deepest-level) category
Translation(level, category) == category + level

LevelError == "AssertionError: no such level"

\* 0 <= level for 0 < level
CheckLevel_ZeroAllowed(provider, level) ==
    IF provider \notin DOMAIN INDUSTRY_LEVEL THEN "KeyError"
    ELSE IF 0 <= level /\ level <= INDUSTRY_LEVEL[provider] THEN "ok"
    ELSE LevelError

\* assert 0 < level <= INDUSTRY_LEVEL[provider]
CheckLevel(provider, level) ==
    IF provider \notin DOMAIN INDUSTRY_LEVEL THEN "KeyError"
    ELSE IF 0 < level /\ level <= INDUSTRY_LEVEL[provider] THEN "ok"
    ELSE LevelError

\* the translation is needed below the provider's deepest level only
NeedsTranslation(provider, level) == level # INDUSTRY_LEVEL[provider]

\* df[industry_col_name].map(new_translation); a missing category stays missing
MapTranslation(rows, level) ==
    [i \in 1..Len(rows) |->
        LongRow(rows[i].DateTime, rows[i].ID,
                IF rows[i].value = NaN THEN NaN ELSE Translation(level, rows[i].value))]

IndustryCall(provider, level, start_date, end_date, stock_list) ==
    [op |-> "get_industry", provider |-> provider, level |-> level,
     start_date |-> start_date, end_date |-> end_date, stock_list |-> stock_list]

GetIndustry(provider, level, start_date, end_date, stock_list) ==
    /\ pc = "idle"
    /\ call' = IndustryCall(provider, level, start_date, end_date, stock_list)
    /\ pc' = "returned"
    /\ LET status == CheckLevel(provider, level)
       IN  /\ queries' = queries + Reads(status)
           /\ IF status # "ok"
              THEN /\ out' = Raised(status)
                   /\ UNCHANGED df
              ELSE LET rows == ReadSqlTable(IndustryTable(provider))
                       named == IF NeedsTranslation(provider, level)
                                THEN MapTranslation(rows, level) ELSE rows
                   IN  /\ rows # <<>>
                       /\ df' = Unstack(named)
                       /\ out' = ConformDf(df', TRUE, start_date, end_date, stock_list)
    /\ UNCHANGED <<meta, data, calendar, stocks, primary_keys>>

----------------------------------------------------------------------------
(* The reader serving requests over a populated store *)

MaxBalanceRows == 1

\* financial tables of at most MaxBalanceRows rows with a unique primary key,
\* in any order
FinTables ==
    UNION {{t \in [1..n -> FinRows] :
               \A i, j \in 1..n : i # j => ~SameKey(t[i], t[j])}
           : n \in 0..MaxBalanceRows}

Stores ==
    {[EmptyStore EXCEPT !.daily = t] : t \in LongTables}
    \cup {[EmptyStore EXCEPT !.balance = t] : t \in FinTables}
    \cup {[EmptyStore EXCEPT !.P_industry = t] : t \in LongTables}

Init ==
    /\ meta = Schema
    /\ data \in Stores
    /\ calendar = Sorted(Dates)
    /\ stocks = Sorted(IDs)
    /\ df = EmptyPanel
    /\ call = Idle
    /\ pc = "idle"
    /\ queries = 0
    /\ primary_keys = <<>>
    /\ out = Raised("none")

RequestDates == {None, MaxDate - 1}

RequestStockLists == {NoStockList, StockList(<<MaxID>>)}

LevelArgs == -1..(INDUSTRY_LEVEL.P + 1)

Next ==
    \/ \E table_name \in {"daily", "Daily", "unknown_table"}, factor_name \in {"f", "x"},
          ffill \in BOOLEAN, end_date \in RequestDates, stock_list \in RequestStockLists :
            GetFactor(table_name, factor_name, ffill, None, end_date, stock_list)
    \/ \E table_name \in {"balance", "BALANCE", "unknown_table"}, factor_name \in {"f", "x"},
          agg_func \in AggFuncs, stock_list \in RequestStockLists, yearly \in BOOLEAN :
            GetFinancialFactor(table_name, factor_name, agg_func, None, None,
                               stock_list, yearly)
    \/ \E provider \in {"P", "Q"}, level \in LevelArgs, start_date \in RequestDates,
          stock_list \in RequestStockLists :
            GetIndustry(provider, level, start_date, None, stock_list)

Spec == Init /\ [][Next]_vars

----------------------------------------------------------------------------
(* Claims about whole requests, checked under Spec *)

Returned(op) == pc = "returned" /\ call.op = op

\* the table or the column the call names is not in the store (table names
\* are matched after lower-casing, as the handlers do)
UnknownTableOrColumn ==
    \/ Lower(call.table_name) \notin DOMAIN meta
    \/ call.factor_name \notin meta[Lower(call.table_name)]

\* C8: a get_factor or get_financial_factor call that names an unknown table
\* or column ends in the schema error with no query executed, and hands back
\* no panel, partial or empty.
C8_SchemaErrorBeforeAnyQuery ==
    ((Returned("get_factor") \/ Returned("get_financial_factor"))
        /\ UnknownTableOrColumn) =>
        /\ out.status \in SchemaErrors
        /\ queries = 0
        /\ out.df = EmptyPanel
        /\ df = EmptyPanel

C8_Witness ==
    /\ Returned("get_financial_factor")
    /\ call.table_name = "BALANCE"
    /\ call.factor_name = "x"
    /\ data.balance # <<>>
    /\ out.status = NoColumn
    /\ queries = 0

====
